---- MODULE Spec2Model ----
(***************************************************************************)
(* Smart BI Platform: the analytical queries of src/api/main.py and        *)
(* src/scripts/run_analytics.py over the PostgreSQL tables departments,    *)
(* employees, customers, products and sales.                               *)
(*                                                                         *)
(* The tables are the state; every HTTP handler is one action that builds  *)
(* its SQL text, runs it through execute_query and stores the response.    *)
(* SQL is modelled by what PostgreSQL evaluates: joins, GROUP BY, window   *)
(* functions (NTILE, PERCENT_RANK, LAG, DENSE_RANK), NULL propagation,     *)
(* TO_CHAR and ROUND.  The order of rows that compare equal under an       *)
(* ORDER BY is not fixed by SQL: every order is a possible outcome.        *)
(***************************************************************************)
EXTENDS Integers, Sequences, FiniteSets, TLC

VARIABLES departments, employees, customers, products, sales, lc_collate, resp,
          window, scored, requests, sessions, transactions, gen

vars == <<departments, employees, customers, products, sales, lc_collate, resp, window,
          scored, requests, sessions, transactions, gen>>
tables == <<departments, employees, customers, products, sales, lc_collate, window, scored,
            requests, sessions, transactions, gen>>

(***************************************************************************)
(* Bounds of the model.                                                    *)
(***************************************************************************)
MaxSales == 3
MaxEmp == 3
MaxCust == 2
MaxDeptSales == 2
MaxRows == 6
\* sale_date is a day number; MonthLength days make one calendar month.
MonthLength == 2
\* The longest series of months with sales: beyond the script's LIMIT 12.
MaxMonths == 14
\* Requests served at the same time, and sessions ever opened.
MaxReq == 2
MaxSessions == 3

(***************************************************************************)
(* SQL values.                                                             *)
(***************************************************************************)
\* A nullable numeric: NULL, or the number h counted in units of its scale
\* (hundredths after ROUND(.., 2), units after ROUND(.., 0)).
Null == [null |-> TRUE, h |-> 0]
Num(h) == [null |-> FALSE, h |-> h]

RECURSIVE SetSum(_, _)
\* SUM(f[x]) over the rows x of S.
SetSum(S, f) ==
    IF S = {} THEN 0
    ELSE LET x == CHOOSE y \in S : TRUE IN f[x] + SetSum(S \ {x}, f)

Max(S) == CHOOSE x \in S : \A y \in S : y <= x
Min(S) == CHOOSE x \in S : \A y \in S : x <= y

\* numeric ROUND and TO_CHAR round half away from zero: a / b to the nearest integer, b > 0.
RoundDiv(a, b) ==
    IF a >= 0 THEN (2 * a + b) \div (2 * b)
    ELSE -((2 * (-a) + b) \div (2 * b))

RECURSIVE OrdersOfPairs(_)
\* Every order of the <<key, row>> pairs P by non-decreasing key.
OrdersOfPairs(P) ==
    IF P = {} THEN {<<>>}
    ELSE LET lo == Min({p[1] : p \in P})
         IN UNION {{<<p[2]>> \o t : t \in OrdersOfPairs(P \ {p})} :
                   p \in {r \in P : r[1] = lo}}

\* Every order of the rows S that ORDER BY key ASC can produce: rows with
\* equal keys (peers) come in any order.
SortedOrders(S, key) == OrdersOfPairs({<<key[x], x>> : x \in S})

\* ORDER BY key DESC.
SortedOrdersDesc(S, key) == OrdersOfPairs({<<-key[x], x>> : x \in S})

\* LIMIT n.
Limit(s, n) == SubSeq(s, 1, IF n < Len(s) THEN n ELSE Len(s))

PosOf(s, x) == CHOOSE i \in 1..Len(s) : s[i] = x

(***************************************************************************)
(* Text: a string is a sequence of one-character strings.                  *)
(***************************************************************************)
DigitChars == <<"0", "1", "2", "3", "4", "5", "6", "7", "8", "9">>
DigitChar(d) == DigitChars[d + 1]

RECURSIVE IntDigits(_)
\* The decimal digits of n > 0; no digit at all for 0 (a 9 in a TO_CHAR
\* pattern prints a blank for a leading zero).
IntDigits(n) == IF n = 0 THEN <<>> ELSE IntDigits(n \div 10) \o <<DigitChar(n % 10)>>

RECURSIVE WithCommas(_)
WithCommas(ds) ==
    IF Len(ds) <= 3 THEN ds
    ELSE WithCommas(SubSeq(ds, 1, Len(ds) - 3)) \o <<",">> \o SubSeq(ds, Len(ds) - 2, Len(ds))

RECURSIVE Fill(_, _)
Fill(c, n) == IF n <= 0 THEN <<>> ELSE <<c>> \o Fill(c, n - 1)

\* TO_CHAR(num / den, '$9..9.99') with intDigits nines before the point, for
\* num / den >= 0: '$', one column for the sign, the integer part with its
\* group separators right-aligned in blanks, '.', two decimals.  A value
\* with more integer digits than the pattern prints '#' in every digit place.
ToCharMoney(num, den, intDigits) ==
    LET cents == RoundDiv(num * 100, den)
        ds == IntDigits(cents \div 100)
        width == intDigits + (intDigits - 1) \div 3
        frac == <<DigitChar((cents % 100) \div 10), DigitChar(cents % 10)>>
    IN IF Len(ds) > intDigits
       THEN <<"$", " ">> \o WithCommas(Fill("#", intDigits)) \o <<".", "#", "#">>
       ELSE <<"$", " ">> \o Fill(" ", width - Len(WithCommas(ds))) \o WithCommas(ds)
            \o <<".">> \o frac

\* TO_CHAR(x, '$999,999.99') and TO_CHAR(x, '$999,999,999.99').
ToChar6(num, den) == ToCharMoney(num, den, 6)
ToChar9(num, den) == ToCharMoney(num, den, 9)

\* A nullable aggregate through TO_CHAR: TO_CHAR(NULL, ..) is NULL.
NullText == <<>>

\* TO_CHAR(month, 'YYYY-MM') of month number m (1 = January 2024).
MonthText(m) ==
    IntDigits(2024 + (m - 1) \div 12) \o <<"-">>
    \o <<DigitChar((((m - 1) % 12) + 1) \div 10), DigitChar((((m - 1) % 12) + 1) % 10)>>

\* numeric || '%': the number at scale 2 followed by '%'; NULL || '%' is NULL.
ConcatPercent(v) == IF v.null THEN [null |-> TRUE, h |-> 0, unit |-> ""]
                    ELSE [null |-> FALSE, h |-> v.h, unit |-> "%"]

(***************************************************************************)
(* Tables.  employees and sales are sequences: the index is emp_id /       *)
(* sale_id.  departments, customers and products are the sets of ids that  *)
(* exist; a reference to an id outside them (0 is SQL NULL) resolves to    *)
(* nothing.                                                                *)
(***************************************************************************)
Statuses == {"completed", "pending", "cancelled"}

Emp(dept, salary, active) == [dept_id |-> dept, salary |-> salary, is_active |-> active]
Sale(cust, emp, prod, qty, amount, date, status) ==
    [customer_id |-> cust, emp_id |-> emp, product_id |-> prod, quantity |-> qty,
     total_amount |-> amount, sale_date |-> date, status |-> status]

SaleIds == 1..Len(sales)
EmpIds == 1..Len(employees)
Completed == {i \in SaleIds : sales[i].status = "completed"}

\* DATE_TRUNC('month', sale_date)
DateTruncMonth(date) == (date - 1) \div MonthLength + 1

(***************************************************************************)
(* execute_query: the rows of the query, or [] when anything raised.       *)
(***************************************************************************)
\* param is the request's limit or months (0 for a request without one).
Response(endpoint, param, status, raised, rows) ==
    [endpoint |-> endpoint, param |-> param, status |-> status, raised |-> raised,
     rows |-> rows]

NoResponse == Response("none", 0, 0, FALSE, <<>>)

\* The uncommitted rows of the connection generate_sales holds open.
Conn(sale, transaction) == [sale |-> sale, transaction |-> transaction]

NoConn == Conn(<<>>, <<>>)

\* The data generator: the position of main and run, the operator's answer,
\* the ids kept for referencing, the loop counter, and what the run has
\* done so far (steps called, steps that raised, tables cleared).
Gen(pc, answer, clear_existing, dept_ids, emp_ids, product_ids, customer_ids, i, conn, steps, errors, cleared) ==
    [pc |-> pc, answer |-> answer, clear_existing |-> clear_existing,
     dept_ids |-> dept_ids, emp_ids |-> emp_ids, product_ids |-> product_ids,
     customer_ids |-> customer_ids, i |-> i, conn |-> conn, steps |-> steps,
     errors |-> errors, cleared |-> cleared]

\* The data generator, not started.
NoGen == Gen("not_started", <<>>, FALSE, <<>>, <<>>, <<>>, <<>>, 0, NoConn, <<>>, <<>>, FALSE)

\* try: rows of the query; except Exception: print, return [].
execute_query(ok, rows) == IF ok THEN rows ELSE <<>>

\* A slip that leaves the upper bound out of the Query declaration.
ValidatedLowerOnly(x, lo, hi) == lo <= x

\* FastAPI validates Query(ge=lo, le=hi) before the handler body runs.
Validated(x, lo, hi) == lo <= x /\ x <= hi

Reply(endpoint, param, ok, rows) ==
    /\ resp' = Response(endpoint, param, 200, ~ok, execute_query(ok, rows))
    /\ UNCHANGED tables

Reject(endpoint, param) ==
    /\ resp' = Response(endpoint, param, 422, FALSE, <<>>)
    /\ UNCHANGED tables

\* resp is the response of the request being served: a request opens its
\* own session, and nothing of a response outlives the request.
Idle == resp = NoResponse

\* get_db, finally (run_query: the end of its with block): the response has
\* been sent and the session is closed.
session_close ==
    /\ ~Idle
    /\ resp' = NoResponse
    /\ UNCHANGED tables

(***************************************************************************)
(* GET /analytics/sales/monthly                                            *)
(***************************************************************************)
\* A slip that leaves the GROUP BY out: an aggregate without GROUP BY has
\* one row even over no sale at all.
SalesMonthsUngrouped ==
    IF Completed = {} THEN {1} ELSE {DateTruncMonth(sales[i].sale_date) : i \in Completed}

\* monthly_sales before its LIMIT: one row per month that has a completed sale.
SalesMonths == {DateTruncMonth(sales[i].sale_date) : i \in Completed}
MonthSales(m) == {i \in Completed : DateTruncMonth(sales[i].sale_date) = m}
Revenue(m) == SetSum(MonthSales(m), [i \in MonthSales(m) |-> sales[i].total_amount])

\* ORDER BY month DESC LIMIT months, inside the CTE.
MonthlySalesCte(months) ==
    {m \in SalesMonths : Cardinality({x \in SalesMonths : x > m}) < months}

\* LAG(revenue, 1) OVER (ORDER BY month DESC) within the rows M: the revenue
\* of the row just before in descending order, the next later month.
LagMonthDesc(M, m) ==
    IF \E x \in M : x > m THEN Num(Revenue(Min({x \in M : x > m}))) ELSE Null

\* ROUND(((revenue - lag) / NULLIF(lag, 0)) * 100, 2)
GrowthRate(revenue, lag) ==
    IF lag.null \/ lag.h = 0 THEN Null
    ELSE Num(RoundDiv((revenue - lag.h) * 10000, lag.h))

ApiGrowth(M, m) == GrowthRate(Revenue(m), LagMonthDesc(M, m))

MonthlyRow(M, m) ==
    [month |-> MonthText(m),
     transaction_count |-> Cardinality(MonthSales(m)),
     revenue |-> ToChar9(Revenue(m), 1),
     growth_rate |-> ConcatPercent(ApiGrowth(M, m))]

\* The outer ORDER BY month DESC sorts by the output column, the 'YYYY-MM'
\* text, whose order is the order of the months.
MonthlyRows(months) ==
    LET M == MonthlySalesCte(months)
        ord == CHOOSE s \in SortedOrdersDesc(M, [m \in M |-> m]) : TRUE
    IN [i \in 1..Len(ord) |-> MonthlyRow(M, ord[i])]

get_monthly_sales_trend(months) ==
    /\ Idle
    /\ IF Validated(months, 1, 36)
       THEN \E ok \in BOOLEAN : Reply("monthly", months, ok, MonthlyRows(months))
       ELSE Reject("monthly", months)

MonthsInputs == {0, 1, 2, 36, 37}

(***************************************************************************)
(* run_analytics.py, query 2: the whole monthly series with the previous   *)
(* month, the growth against it and a three-month moving average; the      *)
(* twelve latest months are shown.                                         *)
(***************************************************************************)
\* LAG(revenue, 1) OVER (ORDER BY month): the revenue of the month before.
LagMonthAsc(m) ==
    IF \E x \in SalesMonths : x < m THEN Num(Revenue(Max({x \in SalesMonths : x < m}))) ELSE Null

\* A slip that computes the window after the LIMIT: over the twelve latest
\* months only.
AvgWindowAfterLimit(m) ==
    {x \in MonthlySalesCte(12) :
        x <= m /\ Cardinality({y \in MonthlySalesCte(12) : x < y /\ y <= m}) <= 2}

\* ROWS BETWEEN 2 PRECEDING AND CURRENT ROW of OVER (ORDER BY month)
AvgWindow(m) ==
    {x \in SalesMonths : x <= m /\ Cardinality({y \in SalesMonths : x < y /\ y <= m}) <= 2}

\* TO_CHAR(AVG(revenue) OVER (..), '$999,999,999.99')
ThreeMonthAvg(m) ==
    ToChar9(SetSum(AvgWindow(m), [x \in AvgWindow(m) |-> Revenue(x)]), Cardinality(AvgWindow(m)))

ScriptMonthlyRow(m) ==
    [month |-> MonthText(m),
     transaction_count |-> Cardinality(MonthSales(m)),
     revenue |-> ToChar9(Revenue(m), 1),
     prev_month |-> IF LagMonthAsc(m).null THEN NullText ELSE ToChar9(LagMonthAsc(m).h, 1),
     growth_rate |-> ConcatPercent(GrowthRate(Revenue(m), LagMonthAsc(m))),
     three_month_avg |-> ThreeMonthAvg(m)]

\* ORDER BY month DESC LIMIT 12, after the window functions; the order of
\* the 'YYYY-MM' texts is the order of the months.
ScriptMonthlyRows ==
    LET ord == CHOOSE o \in SortedOrdersDesc(SalesMonths, [m \in SalesMonths |-> m]) : TRUE
    IN [i \in 1..Len(Limit(ord, 12)) |-> ScriptMonthlyRow(ord[i])]

run_monthly_query ==
    /\ Idle
    /\ \E ok \in BOOLEAN : Reply("script_monthly", 0, ok, ScriptMonthlyRows)

(***************************************************************************)
(* Window functions.                                                       *)
(***************************************************************************)
\* A slip in the bucket sizes: every bucket n \div k rows, the rest in the last.
NtileBinRemainderLast(pos, n, k) ==
    IF n \div k = 0 THEN pos
    ELSE IF (pos - 1) \div (n \div k) + 1 > k THEN k ELSE (pos - 1) \div (n \div k) + 1

\* NTILE(k): the bucket of the row at position pos (1-based) of n ordered
\* rows.  The first n % k buckets hold n \div k + 1 rows, the others n \div k.
NtileBin(pos, n, k) ==
    LET q == n \div k
        r == n % k
    IN IF pos <= r * (q + 1) THEN (pos - 1) \div (q + 1) + 1
       ELSE r + (pos - r * (q + 1) - 1) \div q + 1

\* NTILE(k) OVER (ORDER BY key) for one order ord of the rows.
Ntile(ord, k) ==
    [x \in {ord[i] : i \in 1..Len(ord)} |-> NtileBin(PosOf(ord, x), Len(ord), k)]

\* A slip in the window's direction: ORDER BY key DESC for ASC.
NtileAscReversed(S, key, k) == {Ntile(ord, k) : ord \in SortedOrdersDesc(S, key)}

\* Every assignment NTILE(k) OVER (ORDER BY key ASC) can produce over S.
NtileAsc(S, key, k) == {Ntile(ord, k) : ord \in SortedOrders(S, key)}
NtileDesc(S, key, k) == {Ntile(ord, k) : ord \in SortedOrdersDesc(S, key)}

\* RANK() OVER (ORDER BY key): one more than the number of rows before the
\* row's peer group.
SqlRank(S, key, x) == 1 + Cardinality({y \in S : key[y] < key[x]})

\* ROUND(PERCENT_RANK() OVER (ORDER BY key) * 100, 2), in hundredths:
\* PERCENT_RANK is (rank - 1) / (rows - 1), and 0 for a single row.
PercentRank100(S, key, x) ==
    IF Cardinality(S) <= 1 THEN 0
    ELSE RoundDiv((SqlRank(S, key, x) - 1) * 10000, Cardinality(S) - 1)

(***************************************************************************)
(* One window, NTILE(k) OVER (ORDER BY key [DESC]), on its own: the rows   *)
(* are 1..Len(keys), keys[x] is row x's ordering key, bins the buckets     *)
(* once the window has been evaluated.                                     *)
(***************************************************************************)
Window(keys, k, desc, done, bins) ==
    [keys |-> keys, k |-> k, desc |-> desc, done |-> done, bins |-> bins]

NoWindow == Window(<<>>, 0, FALSE, FALSE, <<>>)

ntile ==
    /\ ~window.done
    /\ window.k > 0
    /\ \E bins \in (IF window.desc
                    THEN NtileDesc(DOMAIN window.keys, window.keys, window.k)
                    ELSE NtileAsc(DOMAIN window.keys, window.keys, window.k)) :
          window' = [window EXCEPT !.done = TRUE, !.bins = bins]
    /\ UNCHANGED <<departments, employees, customers, products, sales, lc_collate, resp,
                   scored, requests, sessions, transactions, gen>>

(***************************************************************************)
(* Text comparison under the database's collation.                         *)
(***************************************************************************)
Collations == {"C", "punct_ignored"}

\* "C" compares bytes.  A locale that ignores blanks and punctuation at its
\* first level compares the remaining characters only.
CharWeight(c) ==
    CASE c = " " -> 32 [] c = "#" -> 35 [] c = "$" -> 36 [] c = "," -> 44
      [] c = "-" -> 45 [] c = "." -> 46 [] c = "0" -> 48 [] c = "1" -> 49
      [] c = "2" -> 50 [] c = "3" -> 51 [] c = "4" -> 52 [] c = "5" -> 53
      [] c = "6" -> 54 [] c = "7" -> 55 [] c = "8" -> 56 [] c = "9" -> 57

RECURSIVE CollationKey(_, _)
CollationKey(t, coll) ==
    IF t = <<>> THEN <<>>
    ELSE IF coll = "punct_ignored" /\ CharWeight(Head(t)) < 48
         THEN CollationKey(Tail(t), coll)
         ELSE <<CharWeight(Head(t))>> \o CollationKey(Tail(t), coll)

RECURSIVE LexLess(_, _)
LexLess(a, b) ==
    IF b = <<>> THEN FALSE
    ELSE IF a = <<>> THEN TRUE
    ELSE IF Head(a) # Head(b) THEN Head(a) < Head(b)
    ELSE LexLess(Tail(a), Tail(b))

TextLess(a, b) == LexLess(CollationKey(a, lc_collate), CollationKey(b, lc_collate))

\* The place of each row's text among the texts of S: an integer sort key.
TextKey(S, text) == [x \in S |-> Cardinality({y \in S : TextLess(text[y], text[x])})]

(***************************************************************************)
(* GET /analytics/employees/salary                                         *)
(***************************************************************************)
\* employees e JOIN departments d ON e.dept_id = d.dept_id WHERE e.is_active
SalaryStats == {e \in EmpIds : employees[e].is_active /\ employees[e].dept_id \in departments}

SalaryOf == [e \in EmpIds |-> employees[e].salary]

\* d.dept_name of department d.
DeptName(d) == <<"dept_name", d>>

SalaryRow(e, quartile) ==
    [employee_name |-> e,
     dept_name |-> DeptName(employees[e].dept_id),
     salary |-> ToChar6(employees[e].salary, 1),
     salary_quartile |-> quartile[e],
     percentile_rank |-> ConcatPercent(Num(PercentRank100(SalaryStats, SalaryOf, e)))]

\* ORDER BY salary DESC names the output column: the TO_CHAR text.
SalaryOutputOrders ==
    SortedOrdersDesc(SalaryStats,
                     TextKey(SalaryStats, [e \in SalaryStats |-> ToChar6(employees[e].salary, 1)]))

SalaryRows(limit) ==
    {[i \in 1..Len(Limit(ord, limit)) |-> SalaryRow(ord[i], quartile)] :
        ord \in SalaryOutputOrders, quartile \in NtileAsc(SalaryStats, SalaryOf, 4)}

get_employee_salary_analysis(limit) ==
    /\ Idle
    /\ IF Validated(limit, 1, 200)
       THEN \E rows \in SalaryRows(limit), ok \in BOOLEAN : Reply("salary", limit, ok, rows)
       ELSE Reject("salary", limit)

LimitInputs == {0, 1, 2, 200, 201}

(***************************************************************************)
(* run_analytics.py, query 1: the same ranking, with the percentile cast   *)
(* to numeric before ROUND, the company and department averages, LIMIT 15. *)
(***************************************************************************)
DeptPeers(e) == {x \in SalaryStats : employees[x].dept_id = employees[e].dept_id}

ScriptSalaryRow(e, quartile) ==
    [employee_name |-> e,
     dept_name |-> DeptName(employees[e].dept_id),
     salary |-> ToChar6(employees[e].salary, 1),
     salary_quartile |-> quartile[e],
     percentile_rank |-> ConcatPercent(Num(PercentRank100(SalaryStats, SalaryOf, e))),
     company_avg |-> ToChar6(SetSum(SalaryStats, SalaryOf), Cardinality(SalaryStats)),
     dept_avg |-> ToChar6(SetSum(DeptPeers(e), SalaryOf), Cardinality(DeptPeers(e)))]

ScriptSalaryRows ==
    {[i \in 1..Len(Limit(ord, 15)) |-> ScriptSalaryRow(ord[i], quartile)] :
        ord \in SalaryOutputOrders, quartile \in NtileAsc(SalaryStats, SalaryOf, 4)}

\* run_query prints the rows, or the error when the query raised.
run_salary_query ==
    /\ Idle
    /\ \E rows \in ScriptSalaryRows, ok \in BOOLEAN : Reply("script_salary", 0, ok, rows)

(***************************************************************************)
(* GET /summary                                                            *)
(***************************************************************************)
\* COUNT(*)::text
CountText(n) == IF n = 0 THEN <<"0">> ELSE IntDigits(n)

AmountOf == [i \in SaleIds |-> sales[i].total_amount]

\* TO_CHAR(COALESCE(SUM(total_amount), 0), ..) FROM sales: every sale.
SummaryRevenue == ToChar9(SetSum(SaleIds, AmountOf), 1)

Metric(name, value) == [metric |-> name, value |-> value]

\* ORDER BY metric
SummaryRows ==
    <<Metric("customers", CountText(Cardinality(customers))),
      Metric("departments", CountText(Cardinality(departments))),
      Metric("employees", CountText(Len(employees))),
      Metric("products", CountText(Cardinality(products))),
      Metric("sales", CountText(Len(sales))),
      Metric("total_revenue", SummaryRevenue)>>

database_summary ==
    /\ Idle
    /\ \E ok \in BOOLEAN : Reply("summary", 0, ok, SummaryRows)

(***************************************************************************)
(* GET /analytics/customers/rfm                                            *)
(***************************************************************************)
\* customers c LEFT JOIN sales s ON c.customer_id = s.customer_id AND
\* s.status = 'completed'
CustomerSales(c) == {i \in Completed : sales[i].customer_id = c}

\* A slip that leaves the HAVING clause out: every customer is scored.
CustomerMetricsNoHaving == customers

\* HAVING COUNT(s.sale_id) > 0
CustomerMetrics == {c \in customers : CustomerSales(c) # {}}

\* COALESCE(CURRENT_DATE - MAX(s.sale_date), 999)
RecencyDays(c, today) ==
    IF CustomerSales(c) = {} THEN 999
    ELSE today - Max({sales[i].sale_date : i \in CustomerSales(c)})
Frequency(c) == Cardinality(CustomerSales(c))
MonetaryValue(c) == SetSum(CustomerSales(c), AmountOf)

\* A slip that takes the cascade of the analytics script: Loyal asks for
\* m >= 3 as well, and the low-recency customers are split by f.
SegmentScriptCascade(r, f, m) ==
    IF r >= 4 /\ f >= 4 /\ m >= 4 THEN "Champions"
    ELSE IF r >= 3 /\ f >= 3 /\ m >= 3 THEN "Loyal"
    ELSE IF r >= 4 /\ f <= 2 THEN "New"
    ELSE IF r <= 2 /\ f >= 3 THEN "At Risk"
    ELSE IF r <= 2 /\ f <= 2 THEN "Lost"
    ELSE "Potential"

\* A slip in the order of the cascade: the Loyal rule tested first.
SegmentLoyalFirst(r, f, m) ==
    IF r >= 3 /\ f >= 3 THEN "Loyal"
    ELSE IF r >= 4 /\ f >= 4 /\ m >= 4 THEN "Champions"
    ELSE IF r >= 4 /\ f <= 2 THEN "New"
    ELSE IF r <= 2 THEN "At Risk"
    ELSE "Potential"

\* CASE WHEN .. END as segment
Segment(r, f, m) ==
    IF r >= 4 /\ f >= 4 /\ m >= 4 THEN "Champions"
    ELSE IF r >= 3 /\ f >= 3 THEN "Loyal"
    ELSE IF r >= 4 /\ f <= 2 THEN "New"
    ELSE IF r <= 2 THEN "At Risk"
    ELSE "Potential"

\* One row of rfm_scores on its own: its three scores, and the segment once
\* the CASE of the final SELECT has been evaluated for it.
Scored(r, f, m, done, segment) ==
    [r_score |-> r, f_score |-> f, m_score |-> m, done |-> done, segment |-> segment]

NoScored == Scored(0, 0, 0, FALSE, "")

segment_case ==
    /\ ~scored.done
    /\ scored.r_score > 0
    /\ scored' = [scored EXCEPT !.done = TRUE,
                                !.segment = Segment(scored.r_score, scored.f_score,
                                                    scored.m_score)]
    /\ UNCHANGED <<departments, employees, customers, products, sales, lc_collate, resp,
                   window, requests, sessions, transactions, gen>>

\* NTILE(5) OVER (ORDER BY recency_days ASC), (ORDER BY frequency DESC),
\* (ORDER BY monetary_value DESC)
RScores(today) ==
    NtileAsc(CustomerMetrics, [c \in CustomerMetrics |-> RecencyDays(c, today)], 5)
FScores == NtileDesc(CustomerMetrics, [c \in CustomerMetrics |-> Frequency(c)], 5)
MScores == NtileDesc(CustomerMetrics, [c \in CustomerMetrics |-> MonetaryValue(c)], 5)

RfmRow(c, today, r, f, m) ==
    [customer_name |-> c,
     recency_days |-> RecencyDays(c, today),
     frequency |-> Frequency(c),
     lifetime_value |-> ToChar6(MonetaryValue(c), 1),
     r_score |-> r[c], f_score |-> f[c], m_score |-> m[c],
     segment |-> Segment(r[c], f[c], m[c])]

\* ORDER BY monetary_value DESC: no output column has that name, so the number.
RfmRows(limit, today) ==
    {[i \in 1..Len(Limit(ord, limit)) |-> RfmRow(ord[i], today, r, f, m)] :
        ord \in SortedOrdersDesc(CustomerMetrics,
                                 [c \in CustomerMetrics |-> MonetaryValue(c)]),
        r \in RScores(today), f \in FScores, m \in MScores}

\* CURRENT_DATE when the request runs: no sale is dated after it.
CurrentDates == {5, 9}

get_customer_rfm_analysis(limit) ==
    /\ Idle
    /\ IF Validated(limit, 1, 200)
       THEN \E today \in CurrentDates : \E rows \in RfmRows(limit, today), ok \in BOOLEAN :
               Reply("rfm", limit, ok, rows)
       ELSE Reject("rfm", limit)

(***************************************************************************)
(* run_analytics.py, query 3: Customer RFM Segments (Top Spenders)         *)
(***************************************************************************)
\* CURRENT_DATE - MAX(s.sale_date), of a customer the HAVING clause keeps
ScriptRecencyDays(c, today) == today - Max({sales[i].sale_date : i \in CustomerSales(c)})

\* NTILE(5) OVER (ORDER BY recency_days DESC), (ORDER BY frequency),
\* (ORDER BY monetary_value)
ScriptRScores(today) ==
    NtileDesc(CustomerMetrics, [c \in CustomerMetrics |-> ScriptRecencyDays(c, today)], 5)
ScriptFScores == NtileAsc(CustomerMetrics, [c \in CustomerMetrics |-> Frequency(c)], 5)
ScriptMScores == NtileAsc(CustomerMetrics, [c \in CustomerMetrics |-> MonetaryValue(c)], 5)

\* CASE WHEN .. END as segment
ScriptSegment(r, f, m) ==
    IF r >= 4 /\ f >= 4 /\ m >= 4 THEN "Champions"
    ELSE IF r >= 3 /\ f >= 3 /\ m >= 3 THEN "Loyal Customers"
    ELSE IF r >= 4 /\ f <= 2 THEN "New Customers"
    ELSE IF r <= 2 /\ f >= 3 THEN "At Risk"
    ELSE IF r <= 2 /\ f <= 2 THEN "Lost"
    ELSE "Potential"

ScriptRfmRow(c, today, r, f, m) ==
    [customer_name |-> c,
     recency_days |-> ScriptRecencyDays(c, today),
     frequency |-> Frequency(c),
     lifetime_value |-> ToChar6(MonetaryValue(c), 1),
     r_score |-> r[c], f_score |-> f[c], m_score |-> m[c],
     segment |-> ScriptSegment(r[c], f[c], m[c])]

\* ORDER BY monetary_value DESC LIMIT 20
ScriptRfmRows(today) ==
    {[i \in 1..Len(Limit(ord, 20)) |-> ScriptRfmRow(ord[i], today, r, f, m)] :
        ord \in SortedOrdersDesc(CustomerMetrics,
                                 [c \in CustomerMetrics |-> MonetaryValue(c)]),
        r \in ScriptRScores(today), f \in ScriptFScores, m \in ScriptMScores}

run_rfm_query ==
    /\ Idle
    /\ \E today \in CurrentDates : \E rows \in ScriptRfmRows(today), ok \in BOOLEAN :
          Reply("script_rfm", 0, ok, rows)

(***************************************************************************)
(* GET /analytics/products/top                                             *)
(***************************************************************************)
ProductSales(p) == {i \in Completed : sales[i].product_id = p}
ProductRevenue(p) == SetSum(ProductSales(p), AmountOf)
QuantityOf == [i \in SaleIds |-> sales[i].quantity]

\* A slip that leaves the HAVING clause out: every product is ranked.
TopProductsNoHaving == products

\* HAVING SUM(s.total_amount) > 0: a NULL sum (no completed sale) is not > 0.
TopProducts == {p \in products : ProductSales(p) # {} /\ ProductRevenue(p) > 0}

\* A slip that takes RANK for DENSE_RANK: ties leave gaps.
RankWithGaps(p) ==
    1 + Cardinality({x \in TopProducts : ProductRevenue(x) > ProductRevenue(p)})

\* DENSE_RANK() OVER (ORDER BY SUM(s.total_amount) DESC)
DenseRank(p) == 1 + Cardinality({ProductRevenue(q) : q \in {x \in TopProducts :
                                                         ProductRevenue(x) > ProductRevenue(p)}})

ProductRow(p) ==
    [product_name |-> p,
     times_sold |-> Cardinality(ProductSales(p)),
     total_quantity |-> SetSum(ProductSales(p), QuantityOf),
     revenue |-> ToChar6(ProductRevenue(p), 1),
     rank |-> DenseRank(p)]

ProductRows(limit) ==
    {[i \in 1..Len(Limit(ord, limit)) |-> ProductRow(ord[i])] :
        ord \in SortedOrdersDesc(TopProducts, [p \in TopProducts |-> ProductRevenue(p)])}

TopLimitInputs == {0, 1, 2, 50, 51}

get_top_products(limit) ==
    /\ Idle
    /\ IF Validated(limit, 1, 50)
       THEN \E rows \in ProductRows(limit), ok \in BOOLEAN : Reply("products", limit, ok, rows)
       ELSE Reject("products", limit)

(***************************************************************************)
(* run_analytics.py, query 4: the same aggregation in a CTE, with each     *)
(* product's share of the revenue, LIMIT 20.                               *)
(***************************************************************************)
\* ROUND((revenue / SUM(revenue) OVER ()) * 100, 2), in hundredths
RevenueShare(p) ==
    RoundDiv(ProductRevenue(p) * 10000, SetSum(TopProducts, [x \in TopProducts |-> ProductRevenue(x)]))

ScriptProductRow(p) ==
    [product_name |-> p,
     times_sold |-> Cardinality(ProductSales(p)),
     total_quantity |-> SetSum(ProductSales(p), QuantityOf),
     revenue |-> ToChar6(ProductRevenue(p), 1),
     rank |-> DenseRank(p),
     revenue_share |-> ConcatPercent(Num(RevenueShare(p)))]

\* ORDER BY revenue DESC names the output column: the TO_CHAR text.
ScriptProductRows ==
    {[i \in 1..Len(Limit(ord, 20)) |-> ScriptProductRow(ord[i])] :
        ord \in SortedOrdersDesc(TopProducts,
                    TextKey(TopProducts, [p \in TopProducts |-> ToChar6(ProductRevenue(p), 1)]))}

run_products_query ==
    /\ Idle
    /\ \E rows \in ScriptProductRows, ok \in BOOLEAN : Reply("script_products", 0, ok, rows)

(***************************************************************************)
(* GET /analytics/departments                                              *)
(***************************************************************************)
\* departments d LEFT JOIN employees e ON d.dept_id = e.dept_id AND e.is_active
DeptEmps(d) == {e \in EmpIds : employees[e].is_active /\ employees[e].dept_id = d}

\* ... LEFT JOIN sales s ON e.emp_id = s.emp_id AND s.status = 'completed'
EmpSales(e) == {i \in Completed : sales[i].emp_id = e}
DeptSales(d) == {i \in Completed : sales[i].emp_id \in DeptEmps(d)}

\* The joined rows of employee e: one per completed sale, and one with a
\* NULL sale when the employee has none.
JoinedRows(e) == IF EmpSales(e) = {} THEN 1 ELSE Cardinality(EmpSales(e))

\* TO_CHAR(AVG(e.salary), ..) over the joined rows of the group; AVG of no
\* row is NULL.
DeptAvgSalary(d) ==
    IF DeptEmps(d) = {} THEN NullText
    ELSE ToChar6(SetSum(DeptEmps(d), [e \in DeptEmps(d) |-> employees[e].salary * JoinedRows(e)]),
                 SetSum(DeptEmps(d), [e \in DeptEmps(d) |-> JoinedRows(e)]))

DeptRevenue(d) == SetSum(DeptSales(d), AmountOf)

\* ROUND(COALESCE(SUM(s.total_amount), 0) / NULLIF(COUNT(DISTINCT e.emp_id), 0), 0)
RevenuePerEmployee(d) ==
    IF Cardinality(DeptEmps(d)) = 0 THEN Null
    ELSE Num(RoundDiv(DeptRevenue(d), Cardinality(DeptEmps(d))))

DeptRow(d) ==
    [dept_name |-> DeptName(d),
     employee_count |-> Cardinality(DeptEmps(d)),
     avg_salary |-> DeptAvgSalary(d),
     total_sales |-> Cardinality(DeptSales(d)),
     total_revenue |-> ToChar9(DeptRevenue(d), 1),
     revenue_per_employee |-> RevenuePerEmployee(d)]

\* A slip in the direction of the ORDER BY: ascending revenue.
DeptRowsAscending ==
    {[i \in 1..Len(ord) |-> DeptRow(ord[i])] :
        ord \in SortedOrders(departments, [d \in departments |-> DeptRevenue(d)])}

\* ORDER BY COALESCE(SUM(s.total_amount), 0) DESC NULLS LAST
DeptRows ==
    {[i \in 1..Len(ord) |-> DeptRow(ord[i])] :
        ord \in SortedOrdersDesc(departments, [d \in departments |-> DeptRevenue(d)])}

get_department_performance ==
    /\ Idle
    /\ \E rows \in DeptRows, ok \in BOOLEAN : Reply("departments", 0, ok, rows)

(***************************************************************************)
(* Requests in flight.  get_db gives each request a session of its own:    *)
(* session = db.get_session(); try: yield session; finally: close.         *)
(* requests[r] is the request served in slot r, sessions[s] the session    *)
(* object with id s.                                                       *)
(***************************************************************************)
Request(pc, endpoint, session, status, raised, rows) ==
    [pc |-> pc, endpoint |-> endpoint, session |-> session, status |-> status,
     raised |-> raised, rows |-> rows]

NoRequest == Request("idle", "none", 0, 0, FALSE, <<>>)

Slots == 1..MaxReq

\* closes counts the calls of close(); stale_use records a query executed
\* on the session after close().
SessionObject(open, closes, stale_use) ==
    [open |-> open, closes |-> closes, stale_use |-> stale_use]

\* A slip that keeps one session for the whole application: the session
\* made first is handed out again.
get_session_shared == IF sessions = <<>> THEN Len(sessions) + 1 ELSE Len(sessions)

\* DatabaseConnection.get_session: self.SessionLocal(), a new object.
get_session == Len(sessions) + 1

\* The endpoints served here: /analytics/departments goes through
\* execute_query; /tables executes on the session directly.
Served == {"departments", "tables"}

\* session = db.get_session(), up to the yield.
get_db(r, endpoint) ==
    /\ requests[r].pc = "idle"
    /\ Len(sessions) < MaxSessions
    /\ LET s == get_session
       IN /\ sessions' = IF s > Len(sessions)
                         THEN Append(sessions, SessionObject(TRUE, 0, FALSE))
                         ELSE [sessions EXCEPT ![s].open = TRUE]
          /\ requests' = [requests EXCEPT ![r] = Request("open", endpoint, s, 0, FALSE, <<>>)]
    /\ UNCHANGED <<departments, employees, customers, products, sales, lc_collate, resp,
                   window, scored, transactions, gen>>

\* The rows of the table names in the public schema.
TableNames == <<"customers", "departments", "employees", "products", "sales">>

\* The rows an endpoint's query returns over the tables as they are.
QueryRows(endpoint) == IF endpoint = "departments" THEN DeptRows ELSE {TableNames}

\* The handler body: one query on the request's session.  execute_query
\* turns a failure into []; list_tables lets it propagate.
handler(r) ==
    /\ requests[r].pc = "open"
    /\ \E ok \in BOOLEAN, rows \in QueryRows(requests[r].endpoint) :
          requests' = [requests EXCEPT ![r] =
              IF ok \/ requests[r].endpoint # "tables"
              THEN [@ EXCEPT !.pc = "returned", !.status = 200, !.raised = ~ok,
                             !.rows = execute_query(ok, rows)]
              ELSE [@ EXCEPT !.pc = "raised", !.status = 500, !.raised = TRUE]]
    /\ sessions' = [sessions EXCEPT ![requests[r].session].stale_use =
                        @ \/ ~sessions[requests[r].session].open]
    /\ UNCHANGED <<departments, employees, customers, products, sales, lc_collate, resp,
                   window, scored, transactions, gen>>

\* A slip that closes the session after the yield without try/finally:
\* not when the handler raised.
ClosesOnReturnOnly(pc) == pc = "returned"

\* finally: session.close() runs when the handler returned and when it raised.
Closes(pc) == pc \in {"returned", "raised"}

\* The rest of get_db after the yield; the response is sent.
get_db_exit(r) ==
    /\ requests[r].pc \in {"returned", "raised"}
    /\ sessions' = IF Closes(requests[r].pc)
                   THEN [sessions EXCEPT ![requests[r].session].open = FALSE,
                                         ![requests[r].session].closes = @ + 1]
                   ELSE sessions
    /\ requests' = [requests EXCEPT ![r].pc = "done"]
    /\ UNCHANGED <<departments, employees, customers, products, sales, lc_collate, resp,
                   window, scored, transactions, gen>>

\* The request is over; its slot serves the next one.
request_done(r) ==
    /\ requests[r].pc = "done"
    /\ requests' = [requests EXCEPT ![r] = NoRequest]
    /\ UNCHANGED <<departments, employees, customers, products, sales, lc_collate, resp,
                   window, scored, sessions, transactions, gen>>

\* No request in flight, no data generator running.
Quiet ==
    /\ requests = [r \in Slots |-> NoRequest]
    /\ sessions = <<>>
    /\ transactions = <<>>
    /\ gen = NoGen

(***************************************************************************)
(* generate_data.py: DataGenerator and main.                               *)
(***************************************************************************)
\* self.num_departments, num_employees, num_products, num_customers,
\* num_sales
NumDepartments == 1
NumEmployees == 2
NumProducts == 1
NumCustomers == 2
NumSales == 2

\* str.lower and str.strip on the characters an answer is typed with.
LowerChar(c) ==
    CASE c = "Y" -> "y"
      [] c = "E" -> "e"
      [] c = "S" -> "s"
      [] c = "N" -> "n"
      [] c = "O" -> "o"
      [] OTHER -> c

lower(a) == [k \in DOMAIN a |-> LowerChar(a[k])]

RECURSIVE lstrip(_)
lstrip(a) == IF a # <<>> /\ Head(a) = " " THEN lstrip(Tail(a)) ELSE a

RECURSIVE rstrip(_)
rstrip(a) == IF a # <<>> /\ a[Len(a)] = " " THEN rstrip(SubSeq(a, 1, Len(a) - 1)) ELSE a

strip(a) == rstrip(lstrip(a))

\* What the operator may type at the prompt.
Answers ==
    {<<"y", "e", "s">>, <<"Y", "E", "S">>, <<" ", "y", "e", "s", " ">>,
     <<"n", "o">>, <<"y">>, <<>>}

\* A statement either runs, or raises when executed, or the commit raises.
Outcomes == {"ok", "execute_raises", "commit_raises"}

\* The calls of run, in the order it makes them.
RunOrder ==
    <<"clear", "departments", "employees", "products", "customers", "sales", "update",
      "summary">>

After(step) ==
    LET k == CHOOSE j \in DOMAIN RunOrder : RunOrder[j] = step
    IN IF k < Len(RunOrder) THEN RunOrder[k + 1] ELSE "finished"

\* run calls a step.
Enter(g, step) ==
    IF step = "finished" THEN [g EXCEPT !.pc = "finished"]
    ELSE [g EXCEPT !.pc = step, !.steps = Append(@, step), !.i = 0]

\* A step returns and run calls the next one.
Leave(g, step) == Enter(g, After(step))

\* A slip that only prints the error of a step, as generate_summary does.
AbortsNever(step) == FALSE

\* except Exception: print; raise -- in every step but generate_summary,
\* which prints only.  run prints and re-raises.
Aborts(step) == step # "summary"

\* A step raised, with the open connection rolled back.
Raise(g, step) ==
    LET e == [g EXCEPT !.errors = Append(@, step), !.conn = NoConn]
    IN IF Aborts(step) THEN [e EXCEPT !.pc = "failed"] ELSE Leave(e, step)

\* The id a serial column gives the next row of a table with ids S.
NextId(S) == IF S = {} THEN 1 ELSE Max(S) + 1

\* A row of transactions.
Txn(cust, sale, amount, status) ==
    [customer_id |-> cust, sale_id |-> sale, amount |-> amount, payment_status |-> status]

\* response = input(..).strip().lower(); if response == 'yes':
\* generator.run(clear_existing=True), else the operation is cancelled.
main(answer) ==
    /\ gen.pc = "not_started"
    /\ gen' = IF lower(strip(answer)) = <<"y", "e", "s">>
              THEN [gen EXCEPT !.answer = answer, !.pc = "run", !.clear_existing = TRUE]
              ELSE [gen EXCEPT !.answer = answer, !.pc = "cancelled"]
    /\ UNCHANGED <<departments, employees, customers, products, sales, lc_collate, resp,
                   window, scored, requests, sessions, transactions>>

\* if clear_existing: self.clear_all_data(); then generate_departments.
run ==
    /\ gen.pc = "run"
    /\ gen' = Enter(gen, IF gen.clear_existing THEN "clear" ELSE "departments")
    /\ UNCHANGED <<departments, employees, customers, products, sales, lc_collate, resp,
                   window, scored, requests, sessions, transactions>>

\* TRUNCATE TABLE .. RESTART IDENTITY CASCADE for every table, one commit.
clear_all_data(outcome) ==
    /\ gen.pc = "clear"
    /\ IF outcome = "ok"
       THEN /\ departments' = {}
            /\ employees' = <<>>
            /\ customers' = {}
            /\ products' = {}
            /\ sales' = <<>>
            /\ transactions' = <<>>
            /\ gen' = Leave([gen EXCEPT !.cleared = TRUE], "clear")
       ELSE /\ gen' = Raise(gen, "clear")
            /\ UNCHANGED <<departments, employees, customers, products, sales,
                           transactions>>
    /\ UNCHANGED <<lc_collate, resp, window, scored, requests, sessions>>

\* All departments are inserted on one connection and committed together;
\* each id is appended to self.dept_ids as soon as it is returned.
generate_departments(outcome) ==
    /\ gen.pc = "departments"
    /\ LET new == [k \in 1..NumDepartments |-> NextId(departments) + k - 1]
           ids == [gen EXCEPT !.dept_ids = @ \o new]
       IN CASE outcome = "ok" ->
                 /\ departments' = departments \cup {new[k] : k \in DOMAIN new}
                 /\ gen' = Leave(ids, "departments")
            [] outcome = "execute_raises" ->
                 /\ gen' = Raise(gen, "departments")
                 /\ UNCHANGED departments
            [] outcome = "commit_raises" ->
                 /\ gen' = Raise(ids, "departments")
                 /\ UNCHANGED departments
    /\ UNCHANGED <<employees, customers, products, sales, lc_collate, resp, window, scored,
                   requests, sessions, transactions>>

\* employees_per_dept = (self.num_employees - len(managers)) // len(self.dept_ids)
EmployeesPerDept(m) == (NumEmployees - m) \div m

\* The rows generate_employees inserts: a manager for each department, then
\* employees_per_dept employees for each department.
EmployeeRows(m) == m + (IF EmployeesPerDept(m) > 0 THEN EmployeesPerDept(m) * m ELSE 0)

\* One employee inserted and committed: managers first (salary from 80000,
\* active), then the others (salary from 40000, active or not).
generate_employees(outcome) ==
    /\ gen.pc = "employees"
    /\ LET m == Len(gen.dept_ids)
           k == gen.i + 1
       IN IF m = 0
          THEN /\ gen' = Raise(gen, "employees")
               /\ UNCHANGED employees
          ELSE LET manager == k <= m
                   dept == IF manager THEN gen.dept_ids[k]
                           ELSE gen.dept_ids[((k - m - 1) \div EmployeesPerDept(m)) + 1]
                   ids == [gen EXCEPT !.emp_ids = Append(@, Len(employees) + 1),
                                      !.i = k]
               IN \E active \in (IF manager THEN {TRUE} ELSE BOOLEAN) :
                     CASE outcome = "ok" ->
                            /\ employees' =
                                 Append(employees,
                                        Emp(dept, IF manager THEN 80000 ELSE 40000, active))
                            /\ gen' = IF k = EmployeeRows(m) THEN Leave(ids, "employees")
                                      ELSE ids
                       [] outcome = "execute_raises" ->
                            /\ gen' = Raise(gen, "employees")
                            /\ UNCHANGED employees
                       [] outcome = "commit_raises" ->
                            /\ gen' = Raise(ids, "employees")
                            /\ UNCHANGED employees
    /\ UNCHANGED <<departments, customers, products, sales, lc_collate, resp, window, scored,
                   requests, sessions, transactions>>

\* One product inserted and committed, its id appended to self.product_ids.
generate_products(outcome) ==
    /\ gen.pc = "products"
    /\ LET ids == [gen EXCEPT !.product_ids = Append(@, NextId(products)), !.i = @ + 1]
       IN CASE outcome = "ok" ->
                 /\ products' = products \cup {NextId(products)}
                 /\ gen' = IF gen.i + 1 = NumProducts THEN Leave(ids, "products") ELSE ids
            [] outcome = "execute_raises" ->
                 /\ gen' = Raise(gen, "products")
                 /\ UNCHANGED products
            [] outcome = "commit_raises" ->
                 /\ gen' = Raise(ids, "products")
                 /\ UNCHANGED products
    /\ UNCHANGED <<departments, employees, customers, sales, lc_collate, resp, window, scored,
                   requests, sessions, transactions>>

\* One customer inserted and committed, its id appended to self.customer_ids.
generate_customers(outcome) ==
    /\ gen.pc = "customers"
    /\ LET ids == [gen EXCEPT !.customer_ids = Append(@, NextId(customers)), !.i = @ + 1]
       IN CASE outcome = "ok" ->
                 /\ customers' = customers \cup {NextId(customers)}
                 /\ gen' = IF gen.i + 1 = NumCustomers THEN Leave(ids, "customers") ELSE ids
            [] outcome = "execute_raises" ->
                 /\ gen' = Raise(gen, "customers")
                 /\ UNCHANGED customers
            [] outcome = "commit_raises" ->
                 /\ gen' = Raise(ids, "customers")
                 /\ UNCHANGED customers
    /\ UNCHANGED <<departments, employees, products, sales, lc_collate, resp, window, scored,
                   requests, sessions, transactions>>

\* The elements of a list.
Elements(ids) == {ids[k] : k \in DOMAIN ids}

\* SELECT selling_price of the product; quantity 1, no discount.
SellingPrice(p) == 100 * p

\* A slip that copies the status of the sale to the transaction.
PaymentStatusOfSale(status) == status

\* "completed" if status == "completed" else "pending"
PaymentStatus(status) == IF status = "completed" THEN "completed" ELSE "pending"

\* One round of the loop, up to INSERT INTO sales .. RETURNING sale_id: the
\* row is on the connection, not committed.  random.choice of an empty
\* list raises.
insert_sale(outcome) ==
    /\ gen.pc = "sales"
    /\ gen.conn = NoConn
    /\ IF gen.customer_ids = <<>> \/ gen.emp_ids = <<>> \/ gen.product_ids = <<>>
          \/ outcome # "ok"
       THEN gen' = Raise(gen, "sales")
       ELSE \E c \in Elements(gen.customer_ids), e \in Elements(gen.emp_ids),
               p \in Elements(gen.product_ids),
               status \in {"completed", "pending", "cancelled"} :
               gen' = [gen EXCEPT !.conn =
                          Conn(<<Sale(c, e, p, 1, SellingPrice(p), 1, status)>>, <<>>)]
    /\ UNCHANGED <<departments, employees, customers, products, sales, lc_collate, resp,
                   window, scored, requests, sessions, transactions>>

\* INSERT INTO transactions on the same connection, for the sale_id returned.
insert_transaction(outcome) ==
    /\ gen.pc = "sales"
    /\ gen.conn.sale # <<>>
    /\ gen.conn.transaction = <<>>
    /\ LET s == gen.conn.sale[1]
       IN gen' = IF outcome = "ok"
                 THEN [gen EXCEPT !.conn.transaction =
                          <<Txn(s.customer_id, Len(sales) + 1, s.total_amount,
                                PaymentStatus(s.status))>>]
                 ELSE Raise(gen, "sales")
    /\ UNCHANGED <<departments, employees, customers, products, sales, lc_collate, resp,
                   window, scored, requests, sessions, transactions>>

\* conn.commit(): the sale and its transaction become visible together; a
\* failure rolls both back.
commit_sale(outcome) ==
    /\ gen.pc = "sales"
    /\ gen.conn.transaction # <<>>
    /\ IF outcome = "ok"
       THEN /\ sales' = sales \o gen.conn.sale
            /\ transactions' = transactions \o gen.conn.transaction
            /\ LET done == [gen EXCEPT !.conn = NoConn, !.i = @ + 1]
               IN gen' = IF gen.i + 1 = NumSales THEN Leave(done, "sales") ELSE done
       ELSE /\ gen' = Raise(gen, "sales")
            /\ UNCHANGED <<sales, transactions>>
    /\ UNCHANGED <<departments, employees, customers, products, lc_collate, resp, window,
                   scored, requests, sessions>>

\* UPDATE customers SET last_purchase_date: no column an analysis reads.
update_customer_last_purchase(outcome) ==
    /\ gen.pc = "update"
    /\ gen' = IF outcome = "ok" THEN Leave(gen, "update") ELSE Raise(gen, "update")
    /\ UNCHANGED <<departments, employees, customers, products, sales, lc_collate, resp,
                   window, scored, requests, sessions, transactions>>

\* The counts are printed; an error is printed and not raised.
generate_summary(ok) ==
    /\ gen.pc = "summary"
    /\ gen' = IF ok THEN Leave(gen, "summary") ELSE Raise(gen, "summary")
    /\ UNCHANGED <<departments, employees, customers, products, sales, lc_collate, resp,
                   window, scored, requests, sessions, transactions>>

(***************************************************************************)
(* Databases the specifications start from.  Row ids carry no meaning to   *)
(* any query, so each table is enumerated up to a renaming of its ids:     *)
(* rows in non-decreasing order of an encoding of their columns.           *)
(***************************************************************************)
StatusCode(st) == IF st = "completed" THEN 0 ELSE IF st = "pending" THEN 1 ELSE 2

SaleCode(s) ==
    ((((s.customer_id * 10 + s.emp_id) * 10 + s.product_id) * 100 + s.sale_date) * 10
     + StatusCode(s.status)) * 10000 + s.total_amount

RECURSIVE Tables(_, _)
\* The sequences of at most n rows drawn from Opts.
Tables(Opts, n) ==
    IF n = 0 THEN {<<>>}
    ELSE LET shorter == Tables(Opts, n - 1)
         IN shorter \cup
            {Append(q, r) : q \in {t \in shorter : Len(t) = n - 1}, r \in Opts}

\* The sales tables of at most n rows, up to a renaming of sale_id.
SalesTables(Opts, n) ==
    {q \in Tables(Opts, n) : \A i \in 1..(Len(q) - 1) : SaleCode(q[i]) <= SaleCode(q[i + 1])}

MonthlySaleOpts ==
    {Sale(1, 1, 1, 1, a, d, st) : a \in {0, 500, 1000}, d \in {1, 2, 3, 5},
                                  st \in {"completed", "pending"}}

InitMonthly ==
    /\ departments = {}
    /\ employees = <<>>
    /\ customers = {}
    /\ products = {}
    /\ sales \in SalesTables(MonthlySaleOpts, MaxSales)
    /\ lc_collate = "C"
    /\ resp = NoResponse
    /\ Quiet
    /\ window = NoWindow
    /\ scored = NoScored

NextMonthly ==
    \/ \E months \in MonthsInputs : get_monthly_sales_trend(months)
    \/ session_close

SpecMonthly == InitMonthly /\ [][NextMonthly]_vars

EmpCode(e) == (e.dept_id * 2 + (IF e.is_active THEN 1 ELSE 0)) * 1000000 + e.salary

\* The employees tables of at most n rows, up to a renaming of emp_id.
EmployeesTables(Opts, n) ==
    {q \in Tables(Opts, n) : \A i \in 1..(Len(q) - 1) : EmpCode(q[i]) <= EmpCode(q[i + 1])}

\* dept_id 1 exists; dept_id 0 is NULL and resolves to no department.
SalaryEmpOpts ==
    {Emp(d, s, a) : d \in {0, 1}, s \in {40000, 60000, 80000, 120000}, a \in BOOLEAN}

InitSalary ==
    /\ departments = {1}
    /\ employees \in EmployeesTables(SalaryEmpOpts, MaxEmp)
    /\ customers = {}
    /\ products = {}
    /\ sales = <<>>
    /\ lc_collate \in Collations
    /\ resp = NoResponse
    /\ Quiet
    /\ window = NoWindow
    /\ scored = NoScored

NextSalary ==
    \/ \E limit \in LimitInputs : get_employee_salary_analysis(limit)
    \/ run_salary_query
    \/ session_close

SpecSalary == InitSalary /\ [][NextSalary]_vars

\* The key columns of at most n rows, up to a renaming of the rows.
KeyColumns(Keys, n) ==
    {q \in Tables(Keys, n) : \A i \in 1..(Len(q) - 1) : q[i] <= q[i + 1]}

\* salary_quartile is NTILE(4), the RFM scores are NTILE(5); the API orders
\* frequency and monetary_value DESC, salary and recency_days ASC.
InitRank ==
    /\ departments = {}
    /\ employees = <<>>
    /\ customers = {}
    /\ products = {}
    /\ sales = <<>>
    /\ lc_collate = "C"
    /\ resp = NoResponse
    /\ Quiet
    /\ \E keys \in KeyColumns({1, 2, 3}, MaxRows), k \in {4, 5}, desc \in BOOLEAN :
          window = Window(keys, k, desc, FALSE, <<>>)
    /\ scored = NoScored

NextRank == ntile

SpecRank == InitRank /\ [][NextRank]_vars

\* NTILE(5) scores: every triple of 1..5.
InitSegment ==
    /\ departments = {}
    /\ employees = <<>>
    /\ customers = {}
    /\ products = {}
    /\ sales = <<>>
    /\ lc_collate = "C"
    /\ resp = NoResponse
    /\ Quiet
    /\ window = NoWindow
    /\ \E r \in 1..5, f \in 1..5, m \in 1..5 : scored = Scored(r, f, m, FALSE, "")

NextSegment == segment_case

SpecSegment == InitSegment /\ [][NextSegment]_vars

CustomerSets == {1..n : n \in 0..MaxCust}

\* A sale of customer 1 or 2; the customer may be missing from customers.
RfmSaleOpts ==
    {Sale(c, 1, 1, 1, a, d, st) : c \in {1, 2}, a \in {100, 200}, d \in {1, 5},
                                  st \in {"completed", "pending"}}

InitRfm ==
    /\ departments = {}
    /\ employees = <<>>
    /\ customers \in CustomerSets
    /\ products = {}
    /\ sales \in SalesTables(RfmSaleOpts, MaxSales)
    /\ lc_collate = "C"
    /\ resp = NoResponse
    /\ Quiet
    /\ window = NoWindow
    /\ scored = NoScored

NextRfm ==
    \/ \E limit \in LimitInputs : get_customer_rfm_analysis(limit)
    \/ run_rfm_query
    \/ session_close

SpecRfm == InitRfm /\ [][NextRfm]_vars

DeptEmpOpts == {Emp(d, s, a) : d \in {1, 2}, s \in {40000, 80000}, a \in BOOLEAN}

DeptSaleOpts ==
    {Sale(1, e, 1, 1, a, 1, st) : e \in {1, 2}, a \in {100, 200},
                                  st \in {"completed", "pending"}}

InitDept ==
    /\ departments = {1, 2}
    /\ employees \in EmployeesTables(DeptEmpOpts, MaxEmp)
    /\ customers = {}
    /\ products = {}
    /\ sales \in SalesTables(DeptSaleOpts, MaxDeptSales)
    /\ lc_collate = "C"
    /\ resp = NoResponse
    /\ Quiet
    /\ window = NoWindow
    /\ scored = NoScored

NextDept ==
    \/ get_department_performance
    \/ session_close

SpecDept == InitDept /\ [][NextDept]_vars

\* One department, employee and customer, two products; sales of every status.
RevenueSaleOpts ==
    {Sale(1, 1, p, 1, a, 1, st) : p \in {1, 2}, a \in {100, 200}, st \in Statuses}

InitRevenue ==
    /\ departments = {1}
    /\ employees = <<Emp(1, 40000, TRUE)>>
    /\ customers = {1}
    /\ products = {1, 2}
    /\ sales \in SalesTables(RevenueSaleOpts, MaxSales)
    /\ lc_collate = "C"
    /\ resp = NoResponse
    /\ Quiet
    /\ window = NoWindow
    /\ scored = NoScored

Next ==
    \/ database_summary
    \/ \E limit \in LimitInputs : get_employee_salary_analysis(limit)
    \/ \E months \in MonthsInputs : get_monthly_sales_trend(months)
    \/ \E limit \in LimitInputs : get_customer_rfm_analysis(limit)
    \/ \E limit \in TopLimitInputs : get_top_products(limit)
    \/ get_department_performance
    \/ session_close

\* Every request of the API against a small database with sales of every status.
SpecRevenue == InitRevenue /\ [][Next]_vars

\* Three products; product_id 4 is the id of no product.  Completed sales,
\* some of amount zero, and pending and cancelled sales.
ProductSaleOpts ==
    {Sale(1, 1, p, 1, a, 1, "completed") : p \in {1, 2, 3, 4}, a \in {0, 100, 200}}
    \cup {Sale(1, 1, p, 1, 100, 1, st) : p \in {1, 2, 3, 4}, st \in {"pending", "cancelled"}}

InitProducts ==
    /\ departments = {}
    /\ employees = <<>>
    /\ customers = {}
    /\ products = {1, 2, 3}
    /\ sales \in SalesTables(ProductSaleOpts, MaxSales)
    /\ lc_collate = "C"
    /\ resp = NoResponse
    /\ Quiet
    /\ window = NoWindow
    /\ scored = NoScored

NextProducts ==
    \/ \E limit \in TopLimitInputs : get_top_products(limit)
    \/ run_products_query
    \/ session_close

SpecProducts == InitProducts /\ [][NextProducts]_vars

\* Every table empty or of one row.
InitSmall ==
    /\ departments \in {{}, {1}}
    /\ employees \in {<<>>, <<Emp(1, 40000, TRUE)>>}
    /\ customers \in {{}, {1}}
    /\ products \in {{}, {1}}
    /\ sales \in {<<>>, <<Sale(1, 1, 1, 1, 100, 1, "completed")>>}
    /\ lc_collate = "C"
    /\ resp = NoResponse
    /\ Quiet
    /\ window = NoWindow
    /\ scored = NoScored

SpecSmall == InitSmall /\ [][Next]_vars

\* One completed sale in each of the first k <= n months, the amounts
\* repeating every six months.
SeriesTables(Amounts, n) ==
    {[i \in 1..k |-> Sale(1, 1, 1, 1, a[((i - 1) % 6) + 1], (i - 1) * MonthLength + 1,
                          "completed")] :
        k \in 1..n, a \in [1..6 -> Amounts]}

InitSeries ==
    /\ departments = {}
    /\ employees = <<>>
    /\ customers = {}
    /\ products = {}
    /\ sales \in SeriesTables({100, 200}, MaxMonths)
    /\ lc_collate = "C"
    /\ resp = NoResponse
    /\ Quiet
    /\ window = NoWindow
    /\ scored = NoScored

NextSeries ==
    \/ run_monthly_query
    \/ session_close

SpecSeries == InitSeries /\ [][NextSeries]_vars

\* Two departments without employees: the roll-up has two orders.
InitSessions ==
    /\ departments = {1, 2}
    /\ employees = <<>>
    /\ customers = {}
    /\ products = {}
    /\ sales = <<>>
    /\ lc_collate = "C"
    /\ resp = NoResponse
    /\ Quiet
    /\ window = NoWindow
    /\ scored = NoScored

NextSessions ==
    \/ \E r \in Slots, endpoint \in Served : get_db(r, endpoint)
    \/ \E r \in Slots : handler(r)
    \/ \E r \in Slots : get_db_exit(r)
    \/ \E r \in Slots : request_done(r)

SpecSessions == InitSessions /\ [][NextSessions]_vars

\* A handler that was called runs to its end, and the generator get_db is
\* resumed after it.
SpecSessionsFair ==
    /\ SpecSessions
    /\ \A r \in Slots : WF_vars(handler(r)) /\ WF_vars(get_db_exit(r))

\* The generator starts on an empty database or on one with data of an
\* earlier run: a sale of a customer, with no transaction recorded.
InitGen ==
    /\ \/ /\ departments = {}
          /\ employees = <<>>
          /\ customers = {}
          /\ products = {}
          /\ sales = <<>>
       \/ /\ departments = {1}
          /\ employees = <<Emp(1, 80000, TRUE)>>
          /\ customers = {1, 2, 3}
          /\ products = {1, 2}
          /\ sales = <<Sale(3, 1, 2, 1, 200, 1, "completed")>>
    /\ lc_collate = "C"
    /\ resp = NoResponse
    /\ Quiet
    /\ window = NoWindow
    /\ scored = NoScored

NextGen ==
    \/ \E answer \in Answers : main(answer)
    \/ run
    \/ \E outcome \in Outcomes : clear_all_data(outcome)
    \/ \E outcome \in Outcomes : generate_departments(outcome)
    \/ \E outcome \in Outcomes : generate_employees(outcome)
    \/ \E outcome \in Outcomes : generate_products(outcome)
    \/ \E outcome \in Outcomes : generate_customers(outcome)
    \/ \E outcome \in Outcomes : insert_sale(outcome)
    \/ \E outcome \in Outcomes : insert_transaction(outcome)
    \/ \E outcome \in Outcomes : commit_sale(outcome)
    \/ \E outcome \in Outcomes : update_customer_last_purchase(outcome)
    \/ \E ok \in BOOLEAN : generate_summary(ok)

SpecGen == InitGen /\ [][NextGen]_vars

Init == InitRevenue \/ InitMonthly \/ InitSalary \/ InitRfm \/ InitDept \/ InitProducts

Spec == Init /\ [][Next \/ run_salary_query \/ run_products_query]_vars

(***************************************************************************)
(* Properties.                                                             *)
(***************************************************************************)
Answered(endpoint) == resp.endpoint = endpoint /\ resp.status = 200 /\ ~resp.raised

\* The month a row of the monthly trend stands for.
RowMonth(row) == CHOOSE m \in SalesMonths : MonthText(m) = row.month

\* The revenue of the month just before m in the whole aggregated series.
LagChrono(m) ==
    IF \E x \in SalesMonths : x < m THEN Num(Revenue(Max({x \in SalesMonths : x < m}))) ELSE Null

\* C1: every returned month's growth rate is (revenue(M) - revenue(P)) /
\* revenue(P) * 100 against P, the chronologically immediately preceding
\* month of the aggregated series, and undefined when P is absent or zero.
C1_GrowthAgainstPrecedingMonth ==
    Answered("monthly") =>
        \A i \in 1..Len(resp.rows) :
            resp.rows[i].growth_rate =
                ConcatPercent(GrowthRate(Revenue(RowMonth(resp.rows[i])),
                                         LagChrono(RowMonth(resp.rows[i]))))

\* The horizon the answered request asked for is the number of months it
\* kept, unless the data has fewer.
MostRecent(n) == {m \in SalesMonths : Cardinality({x \in SalesMonths : x > m}) < n}

\* C2: the N most recent months with completed sales are returned, the
\* growth rate of a returned month is the same under every horizon that
\* includes the month, and the oldest returned month has a growth rate
\* whenever the month before it in the data has non-zero revenue.
C2_TruncationAfterGrowth ==
    Answered("monthly") =>
        LET R == {RowMonth(resp.rows[i]) : i \in 1..Len(resp.rows)}
        IN /\ \E n \in 1..36 : R = MostRecent(n)
           /\ \A i \in 1..Len(resp.rows), n \in 1..36 :
                RowMonth(resp.rows[i]) \in MonthlySalesCte(n) =>
                    resp.rows[i].growth_rate =
                        ConcatPercent(ApiGrowth(MonthlySalesCte(n), RowMonth(resp.rows[i])))
           /\ \A i \in 1..Len(resp.rows) :
                (/\ RowMonth(resp.rows[i]) = Min(R)
                 /\ ~LagChrono(Min(R)).null
                 /\ LagChrono(Min(R)).h # 0)
                => ~resp.rows[i].growth_rate.null

ActiveEmps == {e \in EmpIds : employees[e].is_active}
RowEmps == {resp.rows[i].employee_name : i \in 1..Len(resp.rows)}
UnknownDept == <<"Unknown", 0>>

\* C6: an active employee whose department does not resolve is still
\* returned, under department name "Unknown", and counts in the percentile
\* population (here whenever the limit does not truncate the output).
C6_MissingDepartmentUnknown ==
    (Answered("salary") /\ Cardinality(ActiveEmps) <= resp.param) =>
        /\ ActiveEmps \subseteq RowEmps
        /\ \A i \in 1..Len(resp.rows) :
             LET e == resp.rows[i].employee_name
             IN /\ employees[e].dept_id \notin departments
                     => resp.rows[i].dept_name = UnknownDept
                /\ resp.rows[i].percentile_rank =
                     ConcatPercent(Num(PercentRank100(ActiveEmps, SalaryOf, e)))

\* C7: with n >= 2 ranked employees in ascending salary order, the employee
\* at ordinal position r has percentile (r - 1) / (n - 1) * 100 to two
\* decimals; the lowest salary has 0 and the highest has 100.
C7_PercentileByOrdinalPosition ==
    (Answered("salary") /\ Cardinality(SalaryStats) >= 2) =>
        /\ \E ord \in SortedOrders(SalaryStats, SalaryOf) :
             \A i \in 1..Len(resp.rows) :
                resp.rows[i].percentile_rank =
                    ConcatPercent(Num(RoundDiv((PosOf(ord, resp.rows[i].employee_name) - 1) * 10000,
                                               Cardinality(SalaryStats) - 1)))
        /\ \A i \in 1..Len(resp.rows) :
             LET sal == employees[resp.rows[i].employee_name].salary
                 all == {employees[e].salary : e \in SalaryStats}
             IN /\ sal = Min(all) /\ sal # Max(all) => resp.rows[i].percentile_rank.h = 0
                /\ sal = Max(all) /\ sal # Min(all) => resp.rows[i].percentile_rank.h = 10000

\* C8: with exactly one active employee the reported percentile rank is 100.
C8_SingleEmployeePercentile100 ==
    (Answered("salary") /\ Cardinality(ActiveEmps) = 1) =>
        \A i \in 1..Len(resp.rows) :
            resp.rows[i].percentile_rank = ConcatPercent(Num(10000))

\* C10: quartile and percentile are monotonic in salary: of two returned
\* employees the one with the smaller salary has no larger quartile and no
\* larger percentile.
C10_QuartilePercentileMonotonic ==
    (Answered("salary") \/ Answered("script_salary")) =>
        \A i, j \in 1..Len(resp.rows) :
            employees[resp.rows[i].employee_name].salary
                < employees[resp.rows[j].employee_name].salary
            => /\ resp.rows[i].salary_quartile <= resp.rows[j].salary_quartile
               /\ resp.rows[i].percentile_rank.h <= resp.rows[j].percentile_rank.h

\* Three employees, two of them with the same salary, all returned, the
\* lower-paid one in a lower quartile and at a lower percentile.
C10_Witness ==
    /\ Answered("salary")
    /\ Len(resp.rows) = 3
    /\ \E i, j, l \in 1..3 :
         /\ i # l
         /\ employees[resp.rows[i].employee_name].salary
              < employees[resp.rows[j].employee_name].salary
         /\ employees[resp.rows[i].employee_name].salary
              = employees[resp.rows[l].employee_name].salary
         /\ resp.rows[i].salary_quartile < resp.rows[j].salary_quartile
         /\ resp.rows[i].percentile_rank.h < resp.rows[j].percentile_rank.h

BinRows(b) == {x \in DOMAIN window.bins : window.bins[x] = b}
MinNK == IF Len(window.keys) < window.k THEN Len(window.keys) ELSE window.k

\* C9: NTILE(k) over n rows gives every row exactly one bin in 1..k, the
\* bins are contiguous runs of the sorted order, two non-empty bins among
\* 1..min(n,k) differ in size by at most one, and with k > n every row has
\* a bin of its own, 1..n.
C9_BinsPartitionEvenly ==
    window.done =>
        /\ DOMAIN window.bins = DOMAIN window.keys
        /\ \A x \in DOMAIN window.bins : window.bins[x] \in 1..window.k
        /\ \A x, y \in DOMAIN window.bins :
             (IF window.desc THEN window.keys[x] > window.keys[y]
                             ELSE window.keys[x] < window.keys[y])
             => window.bins[x] <= window.bins[y]
        /\ \A b \in 1..window.k : BinRows(b) # {} => \A c \in 1..b : BinRows(c) # {}
        /\ \A b, c \in 1..MinNK :
             (BinRows(b) # {} /\ BinRows(c) # {})
             => /\ Cardinality(BinRows(b)) - Cardinality(BinRows(c)) <= 1
                /\ Cardinality(BinRows(c)) - Cardinality(BinRows(b)) <= 1
        /\ window.k > Len(window.keys) =>
             {window.bins[x] : x \in DOMAIN window.bins} = 1..Len(window.keys)
             /\ \A x, y \in DOMAIN window.bins : window.bins[x] = window.bins[y] => x = y

\* Six rows with tied keys in four buckets: sizes 2, 2, 1, 1.
C9_Witness ==
    /\ window.done
    /\ window.k = 4
    /\ Len(window.keys) = 6
    /\ \E x, y \in DOMAIN window.keys : x # y /\ window.keys[x] = window.keys[y]
    /\ Cardinality(BinRows(1)) = 2
    /\ Cardinality(BinRows(4)) = 1

\* C3: score 5 marks the best customers and score 1 the worst on each
\* measure: of two scored customers, the more recent purchaser has no
\* smaller r_score, the more frequent no smaller f_score, and the one with
\* the higher monetary value no smaller m_score.
C3_ScoreFiveIsBest ==
    Answered("rfm") =>
        \A i, j \in 1..Len(resp.rows) :
            /\ resp.rows[i].recency_days < resp.rows[j].recency_days
                 => resp.rows[i].r_score >= resp.rows[j].r_score
            /\ resp.rows[i].frequency > resp.rows[j].frequency
                 => resp.rows[i].f_score >= resp.rows[j].f_score
            /\ MonetaryValue(resp.rows[i].customer_name)
                  > MonetaryValue(resp.rows[j].customer_name)
                 => resp.rows[i].m_score >= resp.rows[j].m_score

\* The sum of total_amount over the completed sales among S.
CompletedSum(S) == SetSum(S \cap Completed, AmountOf)

\* C4: every revenue or monetary figure returned is aggregated over the
\* completed sales only, so no pending or cancelled sale changes it.
C4_CompletedSalesOnly ==
    /\ Answered("summary") =>
         \A i \in 1..Len(resp.rows) :
            resp.rows[i].metric = "total_revenue"
            => resp.rows[i].value = ToChar9(CompletedSum(SaleIds), 1)
    /\ Answered("monthly") =>
         \A i \in 1..Len(resp.rows) :
            resp.rows[i].revenue =
                ToChar9(CompletedSum({s \in SaleIds : DateTruncMonth(sales[s].sale_date)
                                                        = RowMonth(resp.rows[i])}), 1)
    /\ Answered("products") =>
         \A i \in 1..Len(resp.rows) :
            resp.rows[i].revenue =
                ToChar6(CompletedSum({s \in SaleIds : sales[s].product_id
                                                        = resp.rows[i].product_name}), 1)
    /\ Answered("departments") =>
         \A i \in 1..Len(resp.rows) : \A d \in departments :
            resp.rows[i].dept_name = DeptName(d)
            => resp.rows[i].total_revenue =
                 ToChar9(CompletedSum({s \in SaleIds : sales[s].emp_id \in DeptEmps(d)}), 1)
    /\ Answered("rfm") =>
         \A i \in 1..Len(resp.rows) :
            LET mine == {s \in SaleIds : sales[s].customer_id = resp.rows[i].customer_name}
            IN /\ resp.rows[i].lifetime_value = ToChar6(CompletedSum(mine), 1)
               /\ resp.rows[i].frequency = Cardinality(mine \cap Completed)

\* C5: avg_salary is the mean of the salaries of the department's active
\* employees, each counted once; employee_count is the number of those
\* employees and total_sales the number of their completed sales.
C5_AvgSalaryPerEmployee ==
    Answered("departments") =>
        \A i \in 1..Len(resp.rows) : \A d \in departments :
            resp.rows[i].dept_name = DeptName(d) =>
                /\ resp.rows[i].employee_count = Cardinality(DeptEmps(d))
                /\ resp.rows[i].total_sales =
                     Cardinality({s \in Completed : sales[s].emp_id \in DeptEmps(d)})
                /\ DeptEmps(d) # {} =>
                     resp.rows[i].avg_salary =
                        ToChar6(SetSum(DeptEmps(d), SalaryOf), Cardinality(DeptEmps(d)))

\* The order of the rows S by key (descending when desc) in which rows of
\* equal key keep their first-seen order, the order of their ids.
StableOrder(S, key, desc) ==
    CHOOSE ord \in SortedOrders(S, [x \in S |-> (IF desc THEN -key[x] ELSE key[x]) * 100 + x]) :
        TRUE

\* C11: bin assignment is deterministic under ties: every execution over
\* the same tables gives each row the bin of its position in the stable
\* order, where rows of equal key stand in first-seen order.
C11_TiesBinnedByFirstSeenOrder ==
    /\ Answered("salary") =>
         \A i \in 1..Len(resp.rows) :
            resp.rows[i].salary_quartile =
                Ntile(StableOrder(SalaryStats, SalaryOf, FALSE), 4)[resp.rows[i].employee_name]
    /\ Answered("rfm") =>
         \A i \in 1..Len(resp.rows) :
            LET c == resp.rows[i].customer_name
            IN /\ resp.rows[i].f_score =
                    Ntile(StableOrder(CustomerMetrics,
                                      [x \in CustomerMetrics |-> Frequency(x)], TRUE), 5)[c]
               /\ resp.rows[i].m_score =
                    Ntile(StableOrder(CustomerMetrics,
                                      [x \in CustomerMetrics |-> MonetaryValue(x)], TRUE), 5)[c]

SegmentLabels == {"Champions", "Loyal", "New", "At Risk", "Potential"}

\* C12: the segment is decided by the three scores alone through the
\* ordered cascade, first match winning: Champions iff r, f, m >= 4; Loyal
\* iff not that and r, f >= 3; New iff none of those and r >= 4, f <= 2;
\* At Risk iff none of those and r <= 2; Potential iff nothing matched.
\* Every triple of 1..5 has one of the five labels.
C12_SegmentCascade ==
    scored.done =>
        LET r == scored.r_score
            f == scored.f_score
            m == scored.m_score
            champions == r >= 4 /\ f >= 4 /\ m >= 4
            loyal == ~champions /\ r >= 3 /\ f >= 3
            new == ~champions /\ ~loyal /\ r >= 4 /\ f <= 2
            atRisk == ~champions /\ ~loyal /\ ~new /\ r <= 2
        IN /\ scored.segment \in SegmentLabels
           /\ (scored.segment = "Champions") <=> champions
           /\ (scored.segment = "Loyal") <=> loyal
           /\ (scored.segment = "New") <=> new
           /\ (scored.segment = "At Risk") <=> atRisk
           /\ (scored.segment = "Potential") <=> ~(champions \/ loyal \/ new \/ atRisk)

\* A triple that matches both the first and the second rule is labelled by
\* the first.
C12_Witness ==
    /\ scored.done
    /\ scored.r_score = 5 /\ scored.f_score = 4 /\ scored.m_score = 4
    /\ scored.segment = "Champions"

\* The customers with at least one completed sale.
Purchasers ==
    {c \in customers : \E i \in SaleIds : sales[i].customer_id = c /\ sales[i].status = "completed"}

RowCustomers == {resp.rows[i].customer_name : i \in 1..Len(resp.rows)}

RowRevenue(row) ==
    CompletedSum({s \in SaleIds : sales[s].product_id = row.product_name})

\* The products with positive completed revenue.
Sellers == {p \in products : CompletedSum({s \in SaleIds : sales[s].product_id = p}) > 0}

\* C14: ranks are dense: the highest revenue has rank 1, equal revenues
\* share a rank, each next distinct revenue has the previous rank plus
\* one, and an untruncated output holds exactly the ranks 1..d for d
\* distinct revenues.
C14_DenseRanks ==
    (Answered("products") \/ Answered("script_products")) =>
        /\ \A i, j \in 1..Len(resp.rows) :
             /\ RowRevenue(resp.rows[i]) = RowRevenue(resp.rows[j])
                  <=> resp.rows[i].rank = resp.rows[j].rank
             /\ RowRevenue(resp.rows[i]) > RowRevenue(resp.rows[j])
                  => resp.rows[i].rank < resp.rows[j].rank
        /\ \A i \in 1..Len(resp.rows) :
             resp.rows[i].rank =
                1 + Cardinality({CompletedSum({s \in SaleIds : sales[s].product_id = p}) :
                                   p \in {x \in Sellers :
                                            CompletedSum({s \in SaleIds : sales[s].product_id = x})
                                              > RowRevenue(resp.rows[i])}})
        /\ Len(resp.rows) = Cardinality(Sellers) =>
             {resp.rows[i].rank : i \in 1..Len(resp.rows)}
               = 1..Cardinality({RowRevenue(resp.rows[i]) : i \in 1..Len(resp.rows)})

\* Three products returned, two of them with the same revenue above the
\* third: ranks 1, 1, 2.
C14_Witness ==
    /\ Answered("products")
    /\ Len(resp.rows) = 3
    /\ resp.rows[1].rank = 1 /\ resp.rows[2].rank = 1 /\ resp.rows[3].rank = 2
    /\ RowRevenue(resp.rows[1]) = RowRevenue(resp.rows[2])

RowProducts == {resp.rows[i].product_name : i \in 1..Len(resp.rows)}

\* C15: no product whose completed revenue is zero is returned (no sale at
\* all, only pending or cancelled sales, or completed sales summing to
\* zero), and such a product takes no rank: the returned products are
\* sellers with positive revenue, all of them when the limit allows, and
\* no rank exceeds the number of distinct positive revenues.
C15_ZeroRevenueProductsExcluded ==
    (Answered("products") \/ Answered("script_products")) =>
        /\ RowProducts \subseteq Sellers
        /\ \A i \in 1..Len(resp.rows) : RowRevenue(resp.rows[i]) > 0
        /\ Answered("products") => Len(resp.rows) = Min({resp.param, Cardinality(Sellers)})
        /\ Answered("script_products") => RowProducts = Sellers
        /\ \A i \in 1..Len(resp.rows) :
             resp.rows[i].rank
               <= Cardinality({CompletedSum({s \in SaleIds : sales[s].product_id = p}) :
                                 p \in Sellers})

\* One product with a completed sale of zero, one with a pending sale only
\* and one with positive revenue: the answer holds the last alone.
C15_Witness ==
    /\ Answered("products")
    /\ resp.param >= 2
    /\ \E p, q \in products \ Sellers :
         /\ \E i \in Completed : sales[i].product_id = p
         /\ \E i \in SaleIds : sales[i].product_id = q /\ sales[i].status = "pending"
         /\ \A i \in Completed : sales[i].product_id # q
    /\ Len(resp.rows) = 1
    /\ resp.rows[1].rank = 1

\* The department a row of the roll-up stands for.
RowDept(row) == CHOOSE d \in departments : DeptName(d) = row.dept_name

\* The active employees of department d, and their completed revenue.
ActiveOf(d) == {e \in ActiveEmps : employees[e].dept_id = d}
RevenueOf(d) == CompletedSum({s \in SaleIds : sales[s].emp_id \in ActiveOf(d)})

\* C16: revenue_per_employee of a department without active employees is
\* zero, a defined value; with active employees it is the completed
\* revenue divided by the number of distinct active employees.
C16_RevenuePerEmployeeZeroSafe ==
    Answered("departments") =>
        \A i \in 1..Len(resp.rows) :
            LET d == RowDept(resp.rows[i])
            IN IF ActiveOf(d) = {}
               THEN resp.rows[i].revenue_per_employee = Num(0)
               ELSE resp.rows[i].revenue_per_employee
                      = Num(RoundDiv(RevenueOf(d), Cardinality(ActiveOf(d))))

\* C17: the roll-up has exactly one row per department, also for one
\* without active employees or completed sales, in order of non-increasing
\* completed revenue, so that departments of zero revenue come after those
\* of positive revenue.
C17_OneRowPerDepartmentByRevenue ==
    Answered("departments") =>
        /\ Len(resp.rows) = Cardinality(departments)
        /\ {resp.rows[i].dept_name : i \in 1..Len(resp.rows)} = {DeptName(d) : d \in departments}
        /\ \A i, j \in 1..Len(resp.rows) :
             i < j => RevenueOf(RowDept(resp.rows[i])) >= RevenueOf(RowDept(resp.rows[j]))
        /\ \A i, j \in 1..Len(resp.rows) :
             (RevenueOf(RowDept(resp.rows[i])) > 0 /\ RevenueOf(RowDept(resp.rows[j])) = 0)
             => i < j

\* A department with revenue before a department without active employees.
C17_Witness ==
    /\ Answered("departments")
    /\ Len(resp.rows) = 2
    /\ RevenueOf(RowDept(resp.rows[1])) > 0
    /\ ActiveOf(RowDept(resp.rows[2])) = {}
    /\ RowDept(resp.rows[1]) = 2

\* The product ids, and the customer ids, that completed sales with a
\* positive total refer to, whether or not a record has that id.
SoldProductIds ==
    {p \in {sales[i].product_id : i \in Completed} :
        CompletedSum({s \in SaleIds : sales[s].product_id = p}) > 0}
BuyerIds == {sales[i].customer_id : i \in Completed}

\* C18: a completed sale whose product or customer does not resolve to a
\* record still yields a result row: the product ranking has a row for
\* every product id with positive completed revenue, and the RFM output a
\* row for every customer id with a completed sale, as far as the limit
\* allows.
C18_OrphanedSalesKeepTheirRow ==
    /\ Answered("products") => Len(resp.rows) = Min({resp.param, Cardinality(SoldProductIds)})
    /\ Answered("rfm") => Len(resp.rows) = Min({resp.param, Cardinality(BuyerIds)})

\* C19: a month's growth rate is null exactly when the month before it in
\* the series is absent or has revenue zero, and a defined number in
\* every other case.
C19_GrowthNullIffNoPreviousRevenue ==
    Answered("monthly") =>
        \A i \in 1..Len(resp.rows) :
            resp.rows[i].growth_rate.null
              <=> (LagChrono(RowMonth(resp.rows[i])).null
                   \/ LagChrono(RowMonth(resp.rows[i])).h = 0)

\* C20: with limit L the answer holds the min(L, n) active employees of
\* highest salary in order of non-increasing numeric salary (here when
\* every active employee's department resolves): the order is that of the
\* numbers, not of the formatted salary texts.
C20_OrderedByNumericSalary ==
    (Answered("salary") /\ \A e \in ActiveEmps : employees[e].dept_id \in departments) =>
        /\ Len(resp.rows) = Min({resp.param, Cardinality(ActiveEmps)})
        /\ \A i, j \in 1..Len(resp.rows) :
             i < j => employees[resp.rows[i].employee_name].salary
                        >= employees[resp.rows[j].employee_name].salary
        /\ \A i \in 1..Len(resp.rows) : \A e \in ActiveEmps \ RowEmps :
             employees[e].salary <= employees[resp.rows[i].employee_name].salary

\* C21: a failure while an analysis query executes is surfaced as an error:
\* no request whose query raised is answered with a successful status, so
\* an empty list always means that there is no data.
C21_FailureSurfaced ==
    resp.raised => resp.status # 200

Analyses == {"salary", "monthly", "rfm", "products", "departments"}

AllEmpty ==
    /\ departments = {} /\ customers = {} /\ products = {}
    /\ employees = <<>> /\ sales = <<>>

\* C22: with every table empty, each of the five analyses answers a valid
\* request successfully with an empty result list.
C22_EmptyInputEmptyResult ==
    (AllEmpty /\ resp.endpoint \in Analyses /\ resp.status # 422) =>
        resp.status = 200 /\ resp.rows = <<>>

\* The department roll-up answered over empty tables, its query having run.
C22_Witness ==
    /\ AllEmpty
    /\ Answered("departments")
    /\ resp.rows = <<>>

\* The allowed range of the limit or horizon of an endpoint that has one.
Bounded == {"salary", "rfm", "products", "monthly"}
UpperBound(endpoint) ==
    CASE endpoint = "salary" -> 200 [] endpoint = "rfm" -> 200
      [] endpoint = "products" -> 50 [] endpoint = "monthly" -> 36

\* C23: a request whose limit or horizon is outside its range is rejected
\* before any query runs: it is answered 422 without rows, and a query has
\* run (status 200) only for a value inside the range.
C23_OutOfRangeRejected ==
    resp.endpoint \in Bounded =>
        /\ resp.status \in {200, 422}
        /\ resp.status = 200 <=> resp.param \in 1..UpperBound(resp.endpoint)
        /\ resp.status = 422 => resp.rows = <<>> /\ ~resp.raised

\* A product ranking asked for with limit 51, and a trend with 0 months.
C23_Witness ==
    /\ resp.status = 422
    /\ \/ resp.endpoint = "products" /\ resp.param = 51
       \/ resp.endpoint = "monthly" /\ resp.param = 0

\* The months of the full aggregated series in chronological order.
Series == CHOOSE o \in SortedOrders(SalesMonths, [m \in SalesMonths |-> m]) : TRUE

\* C24: the month at chronological position i of the full series has as
\* its three-month average the mean of the revenues at the positions
\* max(first, i - 2)..i: one value for the first month, two for the second;
\* the average is computed before the output is cut to the latest months.
C24_TrailingThreeMonthAverage ==
    Answered("script_monthly") =>
        /\ Len(resp.rows) = Min({12, Len(Series)})
        /\ \A j \in 1..Len(resp.rows) :
             LET i == Len(Series) - j + 1
                 from == Max({1, i - 2})
             IN /\ resp.rows[j].month = MonthText(Series[i])
                /\ resp.rows[j].three_month_avg =
                     ToChar9(SetSum(from..i, [p \in from..i |-> Revenue(Series[p])]), i - from + 1)

\* Thirteen months: the oldest month shown is the second of the series and
\* averages the first month, which is not shown, with itself.
C24_Witness ==
    /\ Answered("script_monthly")
    /\ Len(Series) = 13
    /\ Len(resp.rows) = 12
    /\ Revenue(Series[1]) = 200 /\ Revenue(Series[2]) = 100
    /\ resp.rows[12].three_month_avg = ToChar9(300, 2)

\* The requests that hold a session.
InFlight == {r \in Slots : requests[r].pc \in {"open", "returned", "raised"}}

\* C25: requests run side by side without coordination: each request in
\* flight has a session of its own, open for as long as the request runs,
\* and whatever the interleaving a request's answer is one the same query
\* gives over the tables when it runs alone.
C25_RequestsDoNotInterfere ==
    /\ \A r1, r2 \in InFlight : r1 # r2 => requests[r1].session # requests[r2].session
    /\ \A r \in InFlight : sessions[requests[r].session].open
    /\ \A r \in Slots :
         (requests[r].pc \in {"returned", "done"} /\ ~requests[r].raised)
         => requests[r].rows \in QueryRows(requests[r].endpoint)

\* Two requests in flight at once, the second answered before the first
\* has run its query.
C25_Witness ==
    /\ requests[1].pc = "open"
    /\ requests[2].pc = "returned" /\ ~requests[2].raised
    /\ requests[2].endpoint = "departments" /\ Len(requests[2].rows) = 2
    /\ requests[1].session < requests[2].session

\* Session s exists and is open.
IsOpen(s) == IF s <= Len(sessions) THEN sessions[s].open ELSE FALSE

\* C26: every session get_db opens is closed exactly once when its request
\* finishes, whether the handler returned or raised: a session is open
\* exactly while a request holds it, is never closed twice and never used
\* after its close, and no session stays open for ever.
C26_SessionsClosedOnce ==
    /\ [](\A s \in 1..Len(sessions) :
            /\ sessions[s].closes <= 1
            /\ ~sessions[s].stale_use
            /\ sessions[s].open <=> \E r \in InFlight : requests[r].session = s
            /\ ~sessions[s].open => sessions[s].closes = 1)
    /\ \A s \in 1..MaxSessions : []<>~IsOpen(s)

\* A request whose handler raised is over and its session is closed.
C26_Witness ==
    \E r \in Slots :
        /\ requests[r].pc = "done" /\ requests[r].status = 500
        /\ ~sessions[requests[r].session].open
        /\ sessions[requests[r].session].closes = 1

\* C27: in the cascade of the API every customer with r_score <= 2 is
\* At Risk whatever f_score and m_score are, Potential is given exactly
\* when r_score = 3 and f_score <= 2, and m_score matters only between
\* Champions and Loyal: another m_score with the same r_score and f_score
\* gives the same label or exchanges Champions and Loyal.
C27_MonetaryOnlySplitsChampions ==
    scored.done =>
        LET r == scored.r_score
            f == scored.f_score
        IN /\ r <= 2 => scored.segment = "At Risk"
           /\ (scored.segment = "Potential") <=> (r = 3 /\ f <= 2)
           /\ \A m \in 1..5 :
                 \/ Segment(r, f, m) = scored.segment
                 \/ {Segment(r, f, m), scored.segment} = {"Champions", "Loyal"}

\* A customer of low recency score with the best frequency and monetary
\* scores is At Risk.
C27_Witness ==
    /\ scored.done
    /\ scored.r_score = 2 /\ scored.f_score = 5 /\ scored.m_score = 5
    /\ scored.segment = "At Risk"

\* The scores of the rows of an answer, by customer.
ScoresOf(rows) ==
    {<<rows[i].customer_name, rows[i].r_score, rows[i].f_score, rows[i].m_score>> :
        i \in 1..Len(rows)}

\* C28: the two RFM implementations agree: over the same customer metrics
\* the scores r_score, f_score and m_score the API endpoint returns for its
\* customers are scores the analytics script assigns to them, and the
\* scores the script prints are scores the API assigns.
C28_SameScoresInApiAndScript ==
    /\ Answered("rfm") =>
          \E today \in CurrentDates : \E rows \in ScriptRfmRows(today) :
              ScoresOf(resp.rows) \subseteq ScoresOf(rows)
    /\ Answered("script_rfm") =>
          \E today \in CurrentDates : \E rows \in RfmRows(200, today) :
              ScoresOf(resp.rows) \subseteq ScoresOf(rows)

\* The sales the generator has committed: every sale, once the tables have
\* been cleared.
GeneratedSales == IF gen.cleared THEN SaleIds ELSE {}

\* The transactions recorded for sale i.
TransactionsOf(i) == {t \in DOMAIN transactions : transactions[t].sale_id = i}

\* C29: every generated sale has exactly one transaction, with the same
\* customer and the same amount; the two are committed together, so at no
\* moment is there a committed sale without its transaction or a committed
\* transaction without its sale; payment_status is completed iff the sale
\* is completed, and pending for pending and cancelled sales.
C29_SaleAndTransactionTogether ==
    /\ \A i \in GeneratedSales :
         /\ Cardinality(TransactionsOf(i)) = 1
         /\ \A t \in TransactionsOf(i) :
              /\ transactions[t].customer_id = sales[i].customer_id
              /\ transactions[t].amount = sales[i].total_amount
              /\ (transactions[t].payment_status = "completed")
                    <=> (sales[i].status = "completed")
              /\ sales[i].status \in {"pending", "cancelled"}
                    => transactions[t].payment_status = "pending"
    /\ gen.cleared => \A t \in DOMAIN transactions : transactions[t].sale_id \in SaleIds

\* A cancelled sale and a completed sale of different customers, both
\* committed with their transactions.
C29_Witness ==
    /\ gen.cleared
    /\ Len(sales) >= 2
    /\ sales[1].status = "cancelled" /\ sales[2].status = "completed"
    /\ sales[1].customer_id # sales[2].customer_id
    /\ Len(transactions) = Len(sales)
    /\ transactions[1].payment_status = "pending"

\* The steps of run are called in the fixed order, from clear_all_data when
\* clearing was requested.
RunInOrder ==
    LET order == <<"clear", "departments", "employees", "products", "customers",
                   "sales", "update", "summary">>
        called == IF gen.clear_existing THEN order ELSE Tail(order)
    IN /\ \E n \in 0..Len(called) : gen.steps = SubSeq(called, 1, n)
       /\ gen.pc = "finished" => gen.steps = called

\* A step before the summary that raised was the last one called.
FailureAborts ==
    \A k \in DOMAIN gen.errors :
        gen.errors[k] # "summary"
        => /\ gen.pc = "failed"
           /\ gen.steps[Len(gen.steps)] = gen.errors[k]

\* Every generated sale references a customer, an employee and a product
\* this run inserted and committed before.
SalesReferenceThisRun ==
    \A i \in GeneratedSales :
        /\ sales[i].customer_id \in customers \cap Elements(gen.customer_ids)
        /\ sales[i].emp_id \in DOMAIN employees \cap Elements(gen.emp_ids)
        /\ sales[i].product_id \in products \cap Elements(gen.product_ids)

\* C30 as stated: the steps run in the fixed order, a failure before the
\* summary aborts the run, every sale references rows of the same run,
\* and the existing data is cleared only when the operator's answer is
\* exactly 'yes'.
C30_ClearedOnlyOnExactYes ==
    /\ RunInOrder
    /\ FailureAborts
    /\ SalesReferenceThisRun
    /\ gen.cleared => gen.answer = <<"y", "e", "s">>

\* The answer reads yes in any letter case, with blanks around it or not.
ReadsYes(a) ==
    \E i \in DOMAIN a :
        /\ i + 2 \in DOMAIN a
        /\ a[i] \in {"y", "Y"} /\ a[i + 1] \in {"e", "E"} /\ a[i + 2] \in {"s", "S"}
        /\ \A k \in DOMAIN a : (k < i \/ k > i + 2) => a[k] = " "

\* C30, amended: the steps run in the fixed order, a failure before the
\* summary aborts the run, every sale references rows of the same run,
\* and the existing data is cleared only when the operator's answer,
\* stripped of surrounding whitespace and lower-cased, is 'yes'.
C30_ClearedOnlyOnNormalisedYes ==
    /\ RunInOrder
    /\ FailureAborts
    /\ SalesReferenceThisRun
    /\ gen.cleared => ReadsYes(gen.answer)

\* A whole run after the answer YES.
C30_Witness ==
    /\ gen.pc = "finished"
    /\ gen.answer = <<"Y", "E", "S">>
    /\ gen.cleared
    /\ Len(sales) >= 2
    /\ gen.errors = <<>>

====
